---- MODULE Spec2Model ----
(***************************************************************************)
(* Gesture-driven card navigation of the wrap deck.                        *)
(*                                                                         *)
(*   useSwipe  (hooks/useSwipe.ts)   index/direction state, drag handlers  *)
(*                                   and their requestAnimationFrame       *)
(*                                   callbacks                             *)
(*   NavArea   (WrapDisplay.tsx)     the left/right hot zones: touch       *)
(*                                   session, de-duplication flag, reset   *)
(*                                   timers, click path                    *)
(*                                                                         *)
(* Every handler is one action.  React re-renders after each event, so an  *)
(* event handler always runs with the closures of the current state; a     *)
(* requestAnimationFrame callback runs with the closures captured when it  *)
(* was scheduled.                                                          *)
(***************************************************************************)
EXTENDS Integers, Sequences, FiniteSets, TLC

VARIABLES
    totalCards,      \* useSwipe option totalCards (cards.length)
    hasBody,         \* the cards render a .story-card-body (not the image mode)
    currentIndex,    \* useState(0)
    direction,       \* useState(0)
    dragStart,       \* useState<{x,y} | null>(null)
    raf,             \* requestAnimationFrame callbacks waiting for the next frame
    frame,           \* callbacks of the frame that is being run
    style,           \* inline style of the mounted card element
    dragEl,          \* element of the active pointer contact (event.currentTarget)
    preDrag,         \* inline style of that element when the contact began
    touchStartRef,   \* NavArea, per zone: touchStartRef.current
    touchHandledRef, \* NavArea, per zone: touchHandledRef.current
    isActive,        \* NavArea, per zone: useState(false)
    timers,          \* per zone: time left of each pending setTimeout reset
    contact,         \* per zone: where the finger that is down went down,
                     \* whether its touch-start armed the zone, and whether a
                     \* vertical move has cancelled it
    synth,           \* per zone: the click the browser derives from the last contact
    last,            \* what the last step did: operation, calls made, emissions
    lastNav          \* argument of the most recent onSwipe emission, 0 if none

zoneVars == <<touchStartRef, touchHandledRef, isActive, timers, contact, synth>>

vars == <<totalCards, hasBody, currentIndex, direction, dragStart, raf, frame,
          style, dragEl, preDrag, zoneVars, last, lastNav>>

----------------------------------------------------------------------------
(* Bounds of the model *)

MaxCards == 3
MaxRaf == 2

(* Program constants *)

swipeThreshold == 80
swipeVelocity == 250
verticalThreshold == 60
TapMs == 300         \* deltaTime < 300: quick tap
SwipeMs == 500       \* deltaTime < 500: swipe gesture
ResetMs == 300       \* setTimeout(..., 300)

(* The step of the clock, in ms: half the delay of the reset timer *)
TickMs == ResetMs \div 2

----------------------------------------------------------------------------
(* Values *)

NoDrag == <<>>
NoEl == "none"      \* no pointer contact
Live == "live"      \* the mounted card element
Gone == "gone"      \* the element of a card that is no longer shown

Abs(n) == IF n < 0 THEN -n ELSE n

(* Inputs of the navigation and drag operations *)
IndexArgs == -1 .. (MaxCards + 1)
DragStarts == {<<0, 0>>, <<13, 10>>}
DragXs == {0, 10, 12, 13}
DragYs == {0, 10}
OffXs == {-100, -30, 30, 80, 81, 100}
OffYs == {5, 10, 54, -59, 60}
VelXs == {-251, 0, 250, 251}
EndInputs == {<<100, 10, 0>>, <<-100, 10, 0>>, <<30, 5, 0>>, <<-30, 5, 251>>,
              <<80, 5, 250>>}

(* StoryCard renders the card root with style {willChange, overflow:        *)
(* "hidden"} and the body without inline style; hb: the body is rendered.  *)
FreshStyle(hb) ==
    [overflowY |-> "hidden", touchAction |-> "",
     hasBody |-> hb,
     bodyOverflowY |-> "", bodyTouchAction |-> "", bodyPointerEvents |-> "",
     childPointerEvents |-> ""]

NoPre == [none |-> TRUE]      \* no style was recorded
NoTouch == <<>>

Zones == {"left", "right"}

(* Inputs of the hot zones: where a finger goes down, and how far from     *)
(* there it is reported by a move or a release                             *)
TouchStarts == {<<100, 200>>}
MoveDs == {<<0, 0>>, <<12, 6>>, <<6, 2>>, <<10, 50>>, <<-3, -6>>}
EndDXs == {0, 2, 9, 10, 20, 21, -21}
EndDYs == {0, 2, 9, 10, -25}
EndDs == {<<2, 2>>, <<21, 0>>, <<-21, 9>>, <<10, 0>>, <<0, -25>>}

(* The record of a step: the operation, its argument, the index and the   *)
(* direction it found, the navigation functions it called and what onSwipe *)
(* received from them.                                                     *)
Step(op, arg, calls, emits) ==
    [op |-> op, arg |-> arg, idx |-> currentIndex, dir |-> direction,
     calls |-> calls, emits |-> emits]

----------------------------------------------------------------------------
(* useSwipe: navigation.  ci is the currentIndex the called closure reads, *)
(* n its totalCards.  The result says whether setDirection/setCurrentIndex *)
(* were called, with which values, and what onSwipe received.              *)

NoChange == [set |-> FALSE, index |-> 0, direction |-> 0, emits |-> <<>>]

CanGoNext_OffByOne(ci, n) == ci < n

CanGoNext(ci, n) == ci < n - 1

(* setDirection(1) moved out of the if *)
GoToNext_DirectionAlways(ci, n) ==
    IF CanGoNext(ci, n)
    THEN [set |-> TRUE, index |-> ci + 1, direction |-> 1, emits |-> <<1>>]
    ELSE [set |-> TRUE, index |-> ci, direction |-> 1, emits |-> <<>>]

GoToNext(ci, n) ==
    IF CanGoNext(ci, n)
    THEN [set |-> TRUE, index |-> ci + 1, direction |-> 1, emits |-> <<1>>]
    ELSE NoChange

CanGoPrevious(ci) == ci > 0

(* onSwipe?.(-1) left out *)
GoToPrevious_NoEmit(ci) ==
    IF CanGoPrevious(ci)
    THEN [set |-> TRUE, index |-> ci - 1, direction |-> -1, emits |-> <<>>]
    ELSE [set |-> FALSE, index |-> 0, direction |-> 0, emits |-> <<>>]

GoToPrevious(ci) ==
    IF CanGoPrevious(ci)
    THEN [set |-> TRUE, index |-> ci - 1, direction |-> -1, emits |-> <<-1>>]
    ELSE NoChange

InRange_Inclusive(k, n) == k >= 0 /\ k <= n

InRange(k, n) == k >= 0 /\ k < n

IndexDirection_TieForward(k, ci) == IF k >= ci THEN 1 ELSE -1

IndexDirection(k, ci) == IF k > ci THEN 1 ELSE -1

(* onSwipe?.(1) whatever the direction *)
GoToIndex_EmitsForward(k, ci, n) ==
    IF InRange(k, n)
    THEN [set |-> TRUE, index |-> k, direction |-> IndexDirection(k, ci),
          emits |-> <<1>>]
    ELSE NoChange

GoToIndex(k, ci, n) ==
    IF InRange(k, n)
    THEN [set |-> TRUE, index |-> k, direction |-> IndexDirection(k, ci),
          emits |-> <<IndexDirection(k, ci)>>]
    ELSE NoChange

(* A callback whose target was the replaced element keeps that element *)
Retarget(q) ==
    [i \in DOMAIN q |-> IF q[i].el = Live THEN [q[i] EXCEPT !.el = Gone] ELSE q[i]]

(* The state updates of a navigation result r are committed and the deck   *)
(* re-renders: StoryCard is keyed by the card, so a new index replaces the *)
(* mounted element by a new one.  q, f, d: the callback queues and the     *)
(* contact's element as the calling step leaves them.                      *)
Commit(r, q, f, d) ==
    /\ currentIndex' = IF r.set THEN r.index ELSE currentIndex
    /\ direction' = IF r.set THEN r.direction ELSE direction
    /\ lastNav' = IF r.emits # <<>> THEN r.emits[Len(r.emits)] ELSE lastNav
    /\ IF r.set /\ r.index # currentIndex
       THEN /\ style' = FreshStyle(hasBody)
            /\ raf' = Retarget(q)
            /\ frame' = Retarget(f)
            /\ dragEl' = IF d = Live THEN Gone ELSE d
       ELSE /\ style' = style
            /\ raf' = q
            /\ frame' = f
            /\ dragEl' = d

Quiet == frame = <<>>       \* no frame is being run: events are dispatched

(* goToNext() called by an event handler *)
CallGoToNext ==
    /\ Quiet
    /\ LET r == GoToNext(currentIndex, totalCards) IN
         /\ Commit(r, raf, frame, dragEl)
         /\ last' = Step("goToNext", <<>>, <<"goToNext">>, r.emits)
    /\ UNCHANGED <<zoneVars, totalCards, hasBody, dragStart, preDrag>>

(* goToPrevious() called by an event handler *)
CallGoToPrevious ==
    /\ Quiet
    /\ LET r == GoToPrevious(currentIndex) IN
         /\ Commit(r, raf, frame, dragEl)
         /\ last' = Step("goToPrevious", <<>>, <<"goToPrevious">>, r.emits)
    /\ UNCHANGED <<zoneVars, totalCards, hasBody, dragStart, preDrag>>

(* goToIndex(k) called by an event handler *)
CallGoToIndex(k) ==
    /\ Quiet
    /\ LET r == GoToIndex(k, currentIndex, totalCards) IN
         /\ Commit(r, raf, frame, dragEl)
         /\ last' = Step("goToIndex", <<k>>, <<"goToIndex">>, r.emits)
    /\ UNCHANGED <<zoneVars, totalCards, hasBody, dragStart, preDrag>>

----------------------------------------------------------------------------
(* useSwipe: drag handlers and their requestAnimationFrame callbacks *)

(* A requested callback with what its closure holds: the target element,  *)
(* info (offset.x, velocity.x), the currentIndex that the captured         *)
(* goToNext/goToPrevious read; pre: the target's style when the contact    *)
(* began; g: how many pointer contacts ago it was requested, 0 for the     *)
(* latest contact.                                                         *)
Callback(kind, el, info, ci, pre) ==
    [kind |-> kind, el |-> el, info |-> info, ci |-> ci, pre |-> pre, g |-> 0]

(* A new pointer contact begins: the callbacks that wait belong to earlier *)
(* contacts.                                                               *)
Older(q) ==
    IF \E i \in DOMAIN q : q[i].g = 0
    THEN [i \in DOMAIN q |-> [q[i] EXCEPT !.g = @ + 1]]
    ELSE q

LocksScroll_Inclusive(deltaX, deltaY) == deltaX >= 10 /\ 5 * deltaX > 6 * deltaY

(* deltaX > 10 && deltaX > deltaY * 1.2 *)
LocksScroll(deltaX, deltaY) == deltaX > 10 /\ 5 * deltaX > 6 * deltaY

(* horizontalMovement > verticalMovement * 1.5 *)
IsHorizontalSwipe(h, v) == 2 * h > 3 * v

ExceedsThreshold_Inclusive(h, v) == h >= swipeThreshold \/ v >= swipeVelocity

ExceedsThreshold(h, v) == h > swipeThreshold \/ v > swipeVelocity

Qualifies(ox, oy, vx) ==
    /\ IsHorizontalSwipe(Abs(ox), Abs(oy))
    /\ ExceedsThreshold(Abs(ox), Abs(vx))
    /\ Abs(oy) < verticalThreshold

SwipesRight_OffsetOnly(ox, vx) == ox > 0

(* info.offset.x > 0 || info.velocity.x > 0: swipe right, previous card *)
SwipesRight(ox, vx) == ox > 0 \/ vx > 0

(* A callback that switches touchAction instead of setting it *)
ApplyLock_Toggle(s) ==
    [s EXCEPT
        !.overflowY = "hidden",
        !.touchAction = IF @ = "pan-x" THEN "" ELSE "pan-x",
        !.bodyOverflowY = IF s.hasBody THEN "hidden" ELSE @,
        !.bodyTouchAction = IF s.hasBody THEN "pan-x" ELSE @,
        !.bodyPointerEvents = IF s.hasBody THEN "none" ELSE @,
        !.childPointerEvents = IF @ = "none" THEN "" ELSE "none"]

(* The callback of handleDrag *)
ApplyLock(s) ==
    [s EXCEPT
        !.overflowY = "hidden",
        !.touchAction = "pan-x",
        !.bodyOverflowY = IF s.hasBody THEN "hidden" ELSE @,
        !.bodyTouchAction = IF s.hasBody THEN "pan-x" ELSE @,
        !.bodyPointerEvents = IF s.hasBody THEN "none" ELSE @,
        !.childPointerEvents = "none"]

(* The first callback of handleDragEnd *)
RestoreLock(s) ==
    [s EXCEPT
        !.overflowY = "auto",
        !.touchAction = "",
        !.bodyOverflowY = IF s.hasBody THEN "auto" ELSE @,
        !.bodyTouchAction = IF s.hasBody THEN "" ELSE @,
        !.bodyPointerEvents = IF s.hasBody THEN "" ELSE @,
        !.childPointerEvents = ""]

(* The lock of handleDrag is on the card: one of the settings that only    *)
(* its callback writes is in place.  (The card root is rendered with       *)
(* overflow hidden, so that setting does not tell the lock.)               *)
Locked(s) ==
    \/ s.touchAction = "pan-x"
    \/ s.childPointerEvents = "none"
    \/ s.bodyTouchAction = "pan-x"
    \/ s.bodyPointerEvents = "none"
    \/ s.bodyOverflowY = "hidden"

(* pointer-down on the card: handleDragStart *)
DragStart(p) ==
    /\ Quiet
    /\ dragEl = NoEl
    /\ dragStart' = p
    /\ dragEl' = Live
    /\ preDrag' = style
    /\ raf' = Older(raf)
    /\ last' = Step("dragStart", <<>>, <<>>, <<>>)
    /\ UNCHANGED <<zoneVars, totalCards, hasBody, currentIndex, direction, frame, style,
                   lastNav>>

(* pointer-move of the contact: handleDrag with info.point = p *)
Drag(p) ==
    /\ Quiet
    /\ dragEl # NoEl
    /\ IF dragStart # NoDrag
          /\ LocksScroll(Abs(p[1] - dragStart[1]), Abs(p[2] - dragStart[2]))
       THEN /\ Len(raf) < MaxRaf
            /\ raf' = Append(raf, Callback("apply", dragEl, <<>>, 0, NoPre))
       ELSE raf' = raf
    /\ last' = Step("drag", <<>>, <<>>, <<>>)
    /\ UNCHANGED <<zoneVars, totalCards, hasBody, currentIndex, direction, dragStart, frame,
                   style, dragEl, preDrag, lastNav>>

(* handleDragEnd with its restore callback put before the callbacks that   *)
(* already wait                                                            *)
DragEnd_RestoreFirst(ox, oy, vx) ==
    /\ Quiet
    /\ dragEl # NoEl
    /\ LET restore == Callback("restore", dragEl, <<>>, 0, preDrag)
           nav == Callback("nav", NoEl, <<ox, vx>>, currentIndex, NoPre)
       IN  IF Qualifies(ox, oy, vx)
           THEN /\ Len(raf) + 2 <= MaxRaf
                /\ raf' = <<restore>> \o raf \o <<nav>>
           ELSE /\ Len(raf) + 1 <= MaxRaf
                /\ raf' = <<restore>> \o raf
    /\ dragStart' = NoDrag
    /\ dragEl' = NoEl
    /\ preDrag' = NoPre
    /\ last' = Step("dragEnd", <<>>, <<>>, <<>>)
    /\ UNCHANGED <<zoneVars, totalCards, hasBody, currentIndex, direction, frame, style,
                   lastNav>>

(* handleDragEnd that requests the navigation before the restore *)
DragEnd_NavFirst(ox, oy, vx) ==
    /\ Quiet
    /\ dragEl # NoEl
    /\ LET restore == Callback("restore", dragEl, <<>>, 0, preDrag)
           nav == Callback("nav", NoEl, <<ox, vx>>, currentIndex, NoPre)
       IN  IF Qualifies(ox, oy, vx)
           THEN /\ Len(raf) + 2 <= MaxRaf
                /\ raf' = raf \o <<nav, restore>>
           ELSE /\ Len(raf) + 1 <= MaxRaf
                /\ raf' = Append(raf, restore)
    /\ dragStart' = NoDrag
    /\ dragEl' = NoEl
    /\ preDrag' = NoPre
    /\ last' = Step("dragEnd", <<>>, <<>>, <<>>)
    /\ UNCHANGED <<zoneVars, totalCards, hasBody, currentIndex, direction, frame, style,
                   lastNav>>

(* pointer-up of the contact: handleDragEnd with info.offset = (ox, oy) and *)
(* info.velocity.x = vx.  The navigation callback keeps the goToPrevious   *)
(* and goToNext of this render, which read currentIndex.                   *)
DragEnd(ox, oy, vx) ==
    /\ Quiet
    /\ dragEl # NoEl
    /\ LET restore == Callback("restore", dragEl, <<>>, 0, preDrag)
           nav == Callback("nav", NoEl, <<ox, vx>>, currentIndex, NoPre)
       IN  IF Qualifies(ox, oy, vx)
           THEN /\ Len(raf) + 2 <= MaxRaf
                /\ raf' = raf \o <<restore, nav>>
           ELSE /\ Len(raf) + 1 <= MaxRaf
                /\ raf' = Append(raf, restore)
    /\ dragStart' = NoDrag
    /\ dragEl' = NoEl
    /\ preDrag' = NoPre
    /\ last' = Step("dragEnd", <<>>, <<>>, <<>>)
    /\ UNCHANGED <<zoneVars, totalCards, hasBody, currentIndex, direction, frame, style,
                   lastNav>>

(* The pointer contact is lost without handleDragEnd being called: the     *)
(* hook has no handler for it, so nothing is requested and dragStart stays *)
DragCancel ==
    /\ Quiet
    /\ dragEl # NoEl
    /\ dragEl' = NoEl
    /\ preDrag' = NoPre
    /\ last' = Step("dragCancel", <<>>, <<>>, <<>>)
    /\ UNCHANGED <<zoneVars, totalCards, hasBody, currentIndex, direction, dragStart,
                   raf, frame, style, lastNav>>

(* The next animation frame begins: it runs the callbacks requested so far *)
FrameStart ==
    /\ Quiet
    /\ raf # <<>>
    /\ frame' = raf
    /\ raf' = <<>>
    /\ last' = Step("frame", <<>>, <<>>, <<>>)
    /\ UNCHANGED <<zoneVars, totalCards, hasBody, currentIndex, direction, dragStart, style,
                   dragEl, preDrag, lastNav>>

(* The frame runs its next callback *)
RunApply ==
    /\ frame # <<>>
    /\ Head(frame).kind = "apply"
    /\ LET cb == Head(frame) IN
         style' = IF cb.el = Live THEN ApplyLock(style) ELSE style
    /\ frame' = Tail(frame)
    /\ last' = Step("apply",
                    <<Head(frame).g, Head(frame).el = Live /\ Locked(style)>>,
                    <<>>, <<>>)
    /\ UNCHANGED <<zoneVars, totalCards, hasBody, currentIndex, direction, dragStart, raf,
                   dragEl, preDrag, lastNav>>

RunRestore ==
    /\ frame # <<>>
    /\ Head(frame).kind = "restore"
    /\ LET cb == Head(frame) IN
         style' = IF cb.el = Live THEN RestoreLock(style) ELSE style
    /\ frame' = Tail(frame)
    /\ last' = Step("restore", <<Head(frame).g>>, <<>>, <<>>)
    /\ UNCHANGED <<zoneVars, totalCards, hasBody, currentIndex, direction, dragStart, raf,
                   dragEl, preDrag, lastNav>>

RunNav ==
    /\ frame # <<>>
    /\ Head(frame).kind = "nav"
    /\ LET cb == Head(frame)
           right == SwipesRight(cb.info[1], cb.info[2])
           r == IF right THEN GoToPrevious(cb.ci) ELSE GoToNext(cb.ci, totalCards)
       IN  /\ Commit(r, raf, Tail(frame), dragEl)
           /\ last' = Step("nav", cb.info,
                           IF right THEN <<"goToPrevious">> ELSE <<"goToNext">>,
                           r.emits)
    /\ UNCHANGED <<zoneVars, totalCards, hasBody, dragStart, preDrag>>

----------------------------------------------------------------------------
(* NavArea: the two hot zones.  Time is kept relative: touchStartRef holds *)
(* the time since its Date.now() was read, a timer the time left until its *)
(* callback is due.                                                        *)

navState == <<totalCards, hasBody, dragStart, preDrag>>

(* WrapDisplay: disabled={currentCardIndex === 0} for the left zone,       *)
(* disabled={currentCardIndex === cards.length - 1} for the right one      *)
Disabled(z) ==
    IF z = "left" THEN currentIndex = 0 ELSE currentIndex = totalCards - 1

(* onClick of the zone: goToPrevious for the left, goToNext for the right *)
OnClick(z) ==
    IF z = "left" THEN GoToPrevious(currentIndex)
                  ELSE GoToNext(currentIndex, totalCards)

OnClickName(z) == IF z = "left" THEN "goToPrevious" ELSE "goToNext"

(* deltaX < 10 && deltaY < 10 && deltaTime < 300 *)
IsTap(deltaX, deltaY, deltaTime) ==
    deltaX < 10 /\ deltaY < 10 /\ deltaTime < TapMs

IsSwipeGesture_AnyAxis(deltaX, deltaY, deltaTime) ==
    deltaX > 20 /\ deltaTime < SwipeMs

(* deltaX > deltaY && deltaX > 20 && deltaTime < 500 *)
IsSwipeGesture(deltaX, deltaY, deltaTime) ==
    deltaX > deltaY /\ deltaX > 20 /\ deltaTime < SwipeMs

IsVerticalMove_Double(deltaX, deltaY) == deltaY > 5 /\ deltaY > 2 * deltaX

(* deltaY > 5 && deltaY > deltaX * 0.5 *)
IsVerticalMove(deltaX, deltaY) == deltaY > 5 /\ 2 * deltaY > deltaX

(* deltaX > 5 && deltaX > deltaY * 2 *)
IsHorizontalMove(deltaX, deltaY) == deltaX > 5 /\ deltaX > 2 * deltaY

(* touch-start on zone z at (x, y): handleTouchStart *)
TouchStart(z, x, y) ==
    /\ Quiet
    /\ contact[z] = NoTouch
    /\ contact' = [contact EXCEPT ![z] = <<x, y, ~Disabled(z), FALSE>>]
    /\ IF Disabled(z)
       THEN UNCHANGED <<touchStartRef, touchHandledRef, isActive>>
       ELSE /\ touchHandledRef' = [touchHandledRef EXCEPT ![z] = FALSE]
            /\ touchStartRef' = [touchStartRef EXCEPT ![z] = <<x, y, 0>>]
            /\ isActive' = [isActive EXCEPT ![z] = TRUE]
    /\ last' = Step("touchStart", <<z>>, <<>>, <<>>)
    /\ UNCHANGED <<navState, currentIndex, direction, raf, frame, style, dragEl,
                   timers, synth, lastNav>>

(* touch-move of the contact on zone z to (x, y): handleTouchMove *)
TouchMove(z, x, y) ==
    /\ Quiet
    /\ contact[z] # NoTouch
    /\ IF touchStartRef[z] = NoTouch
       THEN /\ UNCHANGED <<touchStartRef, isActive, contact>>
            /\ last' = Step("touchMove", <<z>>, <<>>, <<>>)
       ELSE LET deltaX == Abs(x - touchStartRef[z][1])
                deltaY == Abs(y - touchStartRef[z][2])
            IN  IF IsVerticalMove(deltaX, deltaY)
                THEN /\ isActive' = [isActive EXCEPT ![z] = FALSE]
                     /\ touchStartRef' = [touchStartRef EXCEPT ![z] = NoTouch]
                     /\ contact' = [contact EXCEPT ![z][4] = TRUE]
                     /\ last' = Step("touchMove", <<z, "cancel">>, <<>>, <<>>)
                ELSE /\ UNCHANGED <<touchStartRef, isActive, contact>>
                     /\ last' = Step("touchMove",
                                     IF IsHorizontalMove(deltaX, deltaY)
                                     THEN <<z, "preventDefault">> ELSE <<z>>,
                                     <<>>, <<>>)
    /\ UNCHANGED <<navState, currentIndex, direction, raf, frame, style, dragEl,
                   touchHandledRef, timers, synth, lastNav>>

(* touch-end of the contact on zone z at (x, y): handleTouchEnd.  The      *)
(* browser may derive a click from the contact; acted: this touch-end      *)
(* called onClick.                                                         *)
TouchEnd(z, x, y) ==
    /\ Quiet
    /\ contact[z] # NoTouch
    /\ contact' = [contact EXCEPT ![z] = NoTouch]
    /\ isActive' = [isActive EXCEPT ![z] = FALSE]
    /\ IF touchStartRef[z] = NoTouch \/ Disabled(z)
       THEN /\ UNCHANGED <<touchStartRef, touchHandledRef, timers>>
            /\ UNCHANGED <<currentIndex, direction, raf, frame, style, dragEl,
                           lastNav>>
            /\ synth' = [synth EXCEPT ![z] = <<FALSE, 0>>]
            /\ last' = Step("touchEnd",
                            <<z, IF contact[z][4] THEN "cancelled" ELSE "ignored">>,
                            <<>>, <<>>)
       ELSE LET deltaX == Abs(x - touchStartRef[z][1])
                deltaY == Abs(y - touchStartRef[z][2])
                deltaTime == touchStartRef[z][3]
                acts == \/ IsTap(deltaX, deltaY, deltaTime)
                        \/ IsSwipeGesture(deltaX, deltaY, deltaTime)
                r == IF acts THEN OnClick(z) ELSE NoChange
            IN  /\ touchHandledRef' =
                       IF acts THEN [touchHandledRef EXCEPT ![z] = TRUE]
                               ELSE touchHandledRef
                /\ Commit(r, raf, frame, dragEl)
                /\ touchStartRef' = [touchStartRef EXCEPT ![z] = NoTouch]
                /\ timers' = [timers EXCEPT ![z] = @ \cup {ResetMs}]
                /\ synth' = [synth EXCEPT ![z] = <<acts, 0>>]
                /\ last' = Step("touchEnd",
                                IF acts THEN <<z, "preventDefault">> ELSE <<z>>,
                                IF acts THEN <<OnClickName(z)>> ELSE <<>>,
                                r.emits)
    /\ UNCHANGED navState

(* handleClick without the test of touchHandledRef *)
HandleClick_NoGuard(z, op) ==
    /\ Quiet
    /\ LET acts == ~Disabled(z)
           r == IF acts THEN OnClick(z) ELSE NoChange
       IN  /\ Commit(r, raf, frame, dragEl)
           /\ last' = Step(op, <<z>>,
                           IF acts THEN <<OnClickName(z)>> ELSE <<>>, r.emits)
    /\ UNCHANGED <<navState, touchStartRef, touchHandledRef, isActive, timers,
                   contact>>

(* handleClick over one flag shared by the two zones *)
HandleClick_SharedGuard(z, op) ==
    /\ Quiet
    /\ LET acts == ~Disabled(z) /\ \A o \in Zones : ~touchHandledRef[o]
           r == IF acts THEN OnClick(z) ELSE NoChange
       IN  /\ Commit(r, raf, frame, dragEl)
           /\ last' = Step(op, <<z>>,
                           IF acts THEN <<OnClickName(z)>> ELSE <<>>, r.emits)
    /\ UNCHANGED <<navState, touchStartRef, touchHandledRef, isActive, timers,
                   contact>>

(* handleClick *)
HandleClick(z, op) ==
    /\ Quiet
    /\ LET acts == ~Disabled(z) /\ ~touchHandledRef[z]
           r == IF acts THEN OnClick(z) ELSE NoChange
       IN  /\ Commit(r, raf, frame, dragEl)
           /\ last' = Step(op, <<z>>,
                           IF acts THEN <<OnClickName(z)>> ELSE <<>>, r.emits)
    /\ UNCHANGED <<navState, touchStartRef, touchHandledRef, isActive, timers,
                   contact>>

(* a mouse click on zone z *)
Click(z) ==
    /\ HandleClick(z, "click")
    /\ UNCHANGED synth

(* the click the browser derived from the last contact on zone z arrives *)
SynthClick(z) ==
    /\ synth[z] # NoTouch
    /\ HandleClick(z, "synthClick")
    /\ synth' = [synth EXCEPT ![z] = NoTouch]

(* a reset timer whose callback leaves the flag alone *)
TimerFire_NoReset(z) ==
    /\ Quiet
    /\ \E t \in timers[z] : t <= 0
    /\ timers' = [timers EXCEPT ![z] = {t \in @ : t > 0}]
    /\ touchHandledRef' = touchHandledRef
    /\ last' = Step("timer", <<z, touchHandledRef[z]>>, <<>>, <<>>)
    /\ UNCHANGED <<navState, currentIndex, direction, raf, frame, style, dragEl,
                   touchStartRef, isActive, contact, synth, lastNav>>

(* a reset timer of zone z is due: touchHandledRef.current = false *)
TimerFire(z) ==
    /\ Quiet
    /\ \E t \in timers[z] : t <= 0
    /\ timers' = [timers EXCEPT ![z] = {t \in @ : t > 0}]
    /\ touchHandledRef' = [touchHandledRef EXCEPT ![z] = FALSE]
    /\ last' = Step("timer", <<z, touchHandledRef[z]>>, <<>>, <<>>)
    /\ UNCHANGED <<navState, currentIndex, direction, raf, frame, style, dragEl,
                   touchStartRef, isActive, contact, synth, lastNav>>

Later(t, cap) == IF t >= cap THEN t ELSE t + TickMs

(* TickMs pass; a timer that is due fires before more time passes, and the *)
(* browser gives up a derived click that it has not sent within ResetMs    *)
Tick ==
    /\ Quiet
    /\ \A z \in Zones : \A t \in timers[z] : t > 0
    /\ \E z \in Zones :
          touchStartRef[z] # NoTouch \/ timers[z] # {} \/ synth[z] # NoTouch
    /\ timers' = [z \in Zones |-> {t - TickMs : t \in timers[z]}]
    /\ touchStartRef' =
          [z \in Zones |->
              IF touchStartRef[z] = NoTouch THEN NoTouch
              ELSE [touchStartRef[z] EXCEPT ![3] = Later(@, SwipeMs)]]
    /\ synth' =
          [z \in Zones |->
              IF synth[z] = NoTouch \/ synth[z][2] + TickMs >= ResetMs THEN NoTouch
              ELSE [synth[z] EXCEPT ![2] = @ + TickMs]]
    /\ last' = Step("tick", <<>>, <<>>, <<>>)
    /\ UNCHANGED <<navState, currentIndex, direction, raf, frame, style, dragEl,
                   touchHandledRef, isActive, contact, lastNav>>

----------------------------------------------------------------------------
(* The deck with its drag surface *)

Init ==
    /\ totalCards \in 1 .. MaxCards
    /\ hasBody \in BOOLEAN
    /\ currentIndex = 0
    /\ direction = 0
    /\ dragStart = NoDrag
    /\ raf = <<>>
    /\ frame = <<>>
    /\ style = FreshStyle(hasBody)
    /\ dragEl = NoEl
    /\ preDrag = NoPre
    /\ touchStartRef = [z \in Zones |-> NoTouch]
    /\ touchHandledRef = [z \in Zones |-> FALSE]
    /\ isActive = [z \in Zones |-> FALSE]
    /\ timers = [z \in Zones |-> {}]
    /\ contact = [z \in Zones |-> NoTouch]
    /\ synth = [z \in Zones |-> NoTouch]
    /\ last = [op |-> "init", arg |-> <<>>, idx |-> 0, dir |-> 0,
               calls |-> <<>>, emits |-> <<>>]
    /\ lastNav = 0

(* The deck of cards that render a body *)
ZoneInit == Init /\ hasBody

NavNext ==
    \/ CallGoToNext
    \/ CallGoToPrevious
    \/ \E k \in IndexArgs : CallGoToIndex(k)
    \/ \E p \in DragStarts : DragStart(p)
    \/ \E x \in DragXs, y \in DragYs : Drag(<<x, y>>)
    \/ \E i \in EndInputs : DragEnd(i[1], i[2], i[3])
    \/ FrameStart
    \/ RunApply
    \/ RunRestore
    \/ RunNav

SpecNav == Init /\ [][NavNext]_vars

(* The swipe-end resolver over the whole grid of release inputs *)
SwipeNext ==
    \/ \E p \in DragStarts : DragStart(p)
    \/ \E ox \in OffXs, oy \in OffYs, vx \in VelXs : DragEnd(ox, oy, vx)
    \/ FrameStart
    \/ RunRestore
    \/ RunNav

SpecSwipe == ZoneInit /\ [][SwipeNext]_vars

(* The drag surface alone, with contacts that can be lost; animation       *)
(* frames keep coming, so a requested callback is eventually run           *)
LockNext ==
    \/ \E p \in DragStarts : DragStart(p)
    \/ \E x \in DragXs, y \in DragYs : Drag(<<x, y>>)
    \/ \E i \in EndInputs : DragEnd(i[1], i[2], i[3])
    \/ DragCancel
    \/ FrameStart
    \/ RunApply
    \/ RunRestore
    \/ RunNav

SpecLock ==
    /\ Init
    /\ [][LockNext]_vars
    /\ WF_vars(FrameStart)
    /\ WF_vars(RunApply)
    /\ WF_vars(RunRestore)
    /\ WF_vars(RunNav)

(* The hot zones over the deck, operated one at a time: a zone receives    *)
(* input while the other one has no contact, timer or derived click left   *)
Other(z) == IF z = "left" THEN "right" ELSE "left"

AtRest(z) == contact[z] = NoTouch /\ timers[z] = {} /\ synth[z] = NoTouch

ZoneNext ==
    \/ \E z \in Zones, p \in TouchStarts :
          AtRest(Other(z)) /\ TouchStart(z, p[1], p[2])
    \/ \E z \in Zones, d \in MoveDs :
          /\ contact[z] # NoTouch
          /\ TouchMove(z, contact[z][1] + d[1], contact[z][2] + d[2])
    \/ \E z \in Zones, d \in EndDs :
          /\ contact[z] # NoTouch
          /\ TouchEnd(z, contact[z][1] + d[1], contact[z][2] + d[2])
    \/ \E z \in Zones : AtRest(Other(z)) /\ Click(z)
    \/ \E z \in Zones : SynthClick(z)
    \/ \E z \in Zones : TimerFire(z)
    \/ Tick
    \/ \E k \in IndexArgs : CallGoToIndex(k)

SpecZone == ZoneInit /\ [][ZoneNext]_vars

(* The hot zones with time that passes and timers that fire when due *)
SpecGuard ==
    /\ ZoneInit
    /\ [][ZoneNext]_vars
    /\ WF_vars(Tick)
    /\ \A z \in Zones : WF_vars(TimerFire(z))

(* The two hot zones operated at the same time, each with its own finger,  *)
(* over a few moves and release points; a zone is touched again when the   *)
(* timer and the derived click of its last contact are done                *)
BothMoves == {<<10, 50>>, <<6, 2>>}
BothEnds == {<<2, 2>>, <<0, -25>>}

BothNext ==
    \/ \E z \in Zones, p \in TouchStarts :
          /\ timers[z] = {}
          /\ synth[z] = NoTouch
          /\ TouchStart(z, p[1], p[2])
    \/ \E z \in Zones, d \in BothMoves :
          /\ contact[z] # NoTouch
          /\ TouchMove(z, contact[z][1] + d[1], contact[z][2] + d[2])
    \/ \E z \in Zones, d \in BothEnds :
          /\ contact[z] # NoTouch
          /\ TouchEnd(z, contact[z][1] + d[1], contact[z][2] + d[2])
    \/ \E z \in Zones : Click(z)
    \/ \E z \in Zones : SynthClick(z)
    \/ \E z \in Zones : TimerFire(z)
    \/ Tick

SpecBoth == ZoneInit /\ [][BothNext]_vars

(* The touch path of the zones over the whole grid of release points *)
TapNext ==
    \/ \E z \in Zones, p \in TouchStarts :
          AtRest(Other(z)) /\ TouchStart(z, p[1], p[2])
    \/ \E z \in Zones, d \in MoveDs :
          /\ contact[z] # NoTouch
          /\ TouchMove(z, contact[z][1] + d[1], contact[z][2] + d[2])
    \/ \E z \in Zones, dx \in EndDXs, dy \in EndDYs :
          /\ contact[z] # NoTouch
          /\ TouchEnd(z, contact[z][1] + dx, contact[z][2] + dy)
    \/ \E z \in Zones : TimerFire(z)
    \/ Tick

SpecTap == ZoneInit /\ [][TapNext]_vars

----------------------------------------------------------------------------
(* C1.  For every deck size N >= 1, in every state reached by goToNext,    *)
(* goToPrevious, goToIndex(k) for any k, drags and the deferred navigation *)
(* of drag-ends, 0 <= index <= N - 1.                                      *)
C1_IndexInBounds == 0 <= currentIndex /\ currentIndex <= totalCards - 1

(* A drag-end navigation has moved the deck onto its last card *)
C1_Witness ==
    /\ last.op = "nav"
    /\ last.emits = <<1>>
    /\ totalCards > 1
    /\ currentIndex = totalCards - 1

(* C2.  goToNext called with index < N - 1 sets index to index + 1 and     *)
(* direction to +1 and emits onNavigate(+1) exactly once; goToPrevious     *)
(* called with index > 0 sets index to index - 1 and direction to -1 and   *)
(* emits onNavigate(-1) exactly once.  The calls are those an event        *)
(* handler makes; the deferred call of a drag-end is the subject of C16.   *)
C2_NextPreviousCommit ==
    /\ (last.op = "goToNext" /\ last.idx < totalCards - 1) =>
         /\ currentIndex = last.idx + 1
         /\ direction = 1
         /\ last.emits = <<1>>
    /\ (last.op = "goToPrevious" /\ last.idx > 0) =>
         /\ currentIndex = last.idx - 1
         /\ direction = -1
         /\ last.emits = <<-1>>

(* goToPrevious has just taken the deck one card back *)
C2_Witness ==
    /\ last.op = "goToPrevious"
    /\ last.idx = 1
    /\ last.emits = <<-1>>
    /\ currentIndex = 0

(* C3.  goToNext called at index = N - 1 and goToPrevious called at        *)
(* index = 0 leave index and direction unchanged and emit nothing.         *)
C3_BoundaryNoOp ==
    ((last.op = "goToNext" /\ last.idx = totalCards - 1)
       \/ (last.op = "goToPrevious" /\ last.idx = 0)) =>
         /\ currentIndex = last.idx
         /\ direction = last.dir
         /\ last.emits = <<>>

(* goToNext was called on the last card, after a transition to it *)
C3_Witness ==
    /\ last.op = "goToNext"
    /\ last.idx = totalCards - 1
    /\ last.dir = 1
    /\ last.emits = <<>>

(* C4.  goToIndex(k) with k < 0 or k >= N leaves index and direction       *)
(* unchanged and emits nothing.                                            *)
C4_OutOfRangeIgnored ==
    (last.op = "goToIndex" /\ (last.arg[1] < 0 \/ last.arg[1] >= totalCards)) =>
         /\ currentIndex = last.idx
         /\ direction = last.dir
         /\ last.emits = <<>>

(* goToIndex(N) was called after a transition *)
C4_Witness ==
    /\ last.op = "goToIndex"
    /\ last.arg = <<totalCards>>
    /\ last.emits = <<>>
    /\ last.dir # 0

(* C5.  goToIndex(k) with 0 <= k <= N - 1 sets index to k and direction to *)
(* +1 if k is greater than the index before the call and to -1 otherwise,  *)
(* also when k equals the index.                                           *)
C5_GoToIndexDirection ==
    (last.op = "goToIndex" /\ 0 <= last.arg[1] /\ last.arg[1] <= totalCards - 1) =>
         /\ currentIndex = last.arg[1]
         /\ direction = (IF last.arg[1] > last.idx THEN 1 ELSE -1)
         /\ (last.arg[1] = last.idx => direction = -1)

(* goToIndex(index) after a forward transition: the tie set direction to -1 *)
C5_Witness ==
    /\ last.op = "goToIndex"
    /\ last.arg = <<last.idx>>
    /\ last.dir = 1
    /\ direction = -1

(* The step appended the two callbacks of a qualifying drag-end *)
NavScheduled ==
    /\ Len(raf') = Len(raf) + 2
    /\ raf'[Len(raf')].kind = "nav"
    /\ raf'[Len(raf') - 1].kind = "restore"

(* C6 as stated.  On pointer-up with offset (dx, dy) and velocity vx the   *)
(* resolver requests navigation if and only if |dx| > |dy| * 1.5 and       *)
(* (|dx| >= 80 or |vx| >= 250) and |dy| < 60.                              *)
C6_Original ==
    [][ last'.op = "dragEnd" =>
        \A ox \in OffXs, oy \in OffYs, vx \in VelXs :
          DragEnd(ox, oy, vx) =>
            (NavScheduled <=>
               /\ 2 * Abs(ox) > 3 * Abs(oy)
               /\ (Abs(ox) >= 80 \/ Abs(vx) >= 250)
               /\ Abs(oy) < 60) ]_vars

(* C6 as amended: the displacement and velocity thresholds are strict.     *)
(* The resolver requests navigation if and only if |dx| > |dy| * 1.5 and   *)
(* (|dx| > 80 or |vx| > 250) and |dy| < 60; dx=30, dy=5, vx=0 requests     *)
(* none.                                                                   *)
C6_StrictThresholds ==
    [][ last'.op = "dragEnd" =>
        /\ \A ox \in OffXs, oy \in OffYs, vx \in VelXs :
             DragEnd(ox, oy, vx) =>
               (NavScheduled <=>
                  /\ 2 * Abs(ox) > 3 * Abs(oy)
                  /\ (Abs(ox) > 80 \/ Abs(vx) > 250)
                  /\ Abs(oy) < 60)
        /\ DragEnd(30, 5, 0) => (~NavScheduled /\ Len(raf') = Len(raf) + 1) ]_vars

(* A release just over the displacement threshold requested navigation *)
C6_Witness ==
    /\ last.op = "dragEnd"
    /\ raf # <<>>
    /\ raf[Len(raf)].kind = "nav"
    /\ raf[Len(raf)].info = <<81, 0>>

(* C7.  A qualifying drag-end requests one navigation callback, which      *)
(* makes exactly one call: goToPrevious if dx > 0 or vx > 0, goToNext      *)
(* otherwise.                                                              *)
C7_SwipeDirection ==
    [][ /\ (last'.op = "dragEnd" /\ NavScheduled) =>
           \A ox \in OffXs, oy \in OffYs, vx \in VelXs :
             DragEnd(ox, oy, vx) =>
               /\ raf'[Len(raf')].info = <<ox, vx>>
               /\ SubSeq(raf', 1, Len(raf)) = raf
               /\ last'.calls = <<>>
        /\ RunNav =>
             last'.calls = (IF Head(frame).info[1] > 0 \/ Head(frame).info[2] > 0
                            THEN <<"goToPrevious">> ELSE <<"goToNext">>) ]_vars

(* dx = 100, vx = 0 resolved to goToPrevious *)
C7_Witness ==
    /\ last.op = "nav"
    /\ last.arg = <<100, 0>>
    /\ last.calls = <<"goToPrevious">>

(* C8 as stated.  When the restore callback of a drag-end has run, the     *)
(* settings of the dragged card root, of its body and of its interactive   *)
(* descendants equal the values they had before the drag started.          *)
C8_RestoresPreDrag ==
    [][ (RunRestore /\ Head(frame).el = Live) => style' = Head(frame).pre ]_vars

(* C9 as stated.  The click derived from a contact whose touch-end invoked *)
(* the action, arriving within 300ms on the enabled zone, invokes nothing. *)
C9_NoDoubleAction ==
    [][ \A z \in Zones :
          (/\ synth[z] # NoTouch
           /\ SynthClick(z)
           /\ synth[z][1]
           /\ synth[z][2] < 300
           /\ ~Disabled(z)) => last'.calls = <<>> ]_vars

(* C10.  The touch-end of an Armed contact on an enabled zone invokes the  *)
(* zone's action once if (|dx| < 10 and |dy| < 10 and elapsed < 300ms) or  *)
(* (|dx| > |dy| and |dx| > 20 and elapsed < 500ms), and not at all         *)
(* otherwise; no touch-end invokes it more than once.                      *)
C10_TouchEndClassifies ==
    [][ last'.op = "touchEnd" =>
        \A z \in Zones, dx \in EndDXs, dy \in EndDYs :
          (/\ last'.arg[1] = z
           /\ contact[z] # NoTouch
           /\ TouchEnd(z, contact[z][1] + dx, contact[z][2] + dy)) =>
             /\ Len(last'.calls) <= 1
             /\ (contact[z][3] /\ touchStartRef[z] # NoTouch /\ ~Disabled(z)) =>
                  LET elapsed == touchStartRef[z][3] IN
                  last'.calls =
                    (IF \/ (Abs(dx) < 10 /\ Abs(dy) < 10 /\ elapsed < 300)
                        \/ (Abs(dx) > Abs(dy) /\ Abs(dx) > 20 /\ elapsed < 500)
                     THEN <<(IF z = "left" THEN "goToPrevious" ELSE "goToNext")>>
                     ELSE <<>>) ]_vars

(* A touch-end on the right zone invoked goToNext *)
C10_Witness ==
    /\ last.op = "touchEnd"
    /\ last.arg = <<"right", "preventDefault">>
    /\ last.calls = <<"goToNext">>
    /\ last.emits = <<1>>

(* C11 as stated.  The left zone is disabled exactly when index = 0 and    *)
(* the right zone exactly when index = N - 1, and a zone that is disabled  *)
(* when a touch-start, touch-move, touch-end or click arrives emits no     *)
(* action and changes none of its own state.                               *)
C11_DisabledIgnores ==
    [][ /\ Disabled("left") <=> (currentIndex = 0)
        /\ Disabled("right") <=> (currentIndex = totalCards - 1)
        /\ \A z \in Zones :
             (/\ last'.op \in {"touchStart", "touchMove", "touchEnd", "click",
                               "synthClick"}
              /\ last'.arg[1] = z
              /\ Disabled(z)) =>
                /\ last'.calls = <<>>
                /\ touchStartRef'[z] = touchStartRef[z]
                /\ touchHandledRef'[z] = touchHandledRef[z]
                /\ isActive'[z] = isActive[z]
                /\ timers'[z] = timers[z] ]_vars

(* C12 as stated.  In every reachable state in which no drag is active,    *)
(* the lock is absent from the card surface.                               *)
C12_NoLockAtRest ==
    (dragStart = NoDrag /\ dragEl = NoEl) => ~Locked(style)

(* C13 as stated.  Every committed change of index, whether caused by      *)
(* goToNext, goToPrevious, goToIndex or a drag-end resolution, comes with  *)
(* exactly one onNavigate emission whose direction equals the sign of the  *)
(* index change.                                                           *)
C13_EmissionMatchesChange ==
    (currentIndex # last.idx) =>
        /\ Len(last.emits) = 1
        /\ last.emits[1] = (IF currentIndex > last.idx THEN 1 ELSE -1)

(* C14.  If, during an Armed contact, a touch-move has |dy| > 5 and        *)
(* |dy| > |dx| * 0.5 (e.g. dx=10, dy=50), the zone's session is cleared    *)
(* and the zone returns to Idle without suppressing the default, and the   *)
(* touch-end of that same contact invokes no action, however fast or       *)
(* close to the origin the release is.                                     *)
C14_VerticalMoveCancels ==
    [][ \A z \in Zones :
          /\ (/\ last'.op = "touchMove"
              /\ last'.arg[1] = z
              /\ contact[z] # NoTouch
              /\ contact[z][3]
              /\ touchStartRef[z] # NoTouch) =>
                \A d \in MoveDs :
                  (/\ TouchMove(z, contact[z][1] + d[1], contact[z][2] + d[2])
                   /\ Abs(d[2]) > 5
                   /\ 2 * Abs(d[2]) > Abs(d[1])) =>
                     /\ touchStartRef'[z] = NoTouch
                     /\ ~isActive'[z]
                     /\ last'.arg = <<z, "cancel">>
          /\ (/\ last'.op = "touchEnd"
              /\ last'.arg[1] = z
              /\ contact[z] # NoTouch
              /\ contact[z][4]) =>
                /\ last'.calls = <<>>
                /\ last'.emits = <<>>
                /\ currentIndex' = currentIndex
                /\ touchHandledRef' = touchHandledRef ]_vars

(* The contact that a vertical move cancelled on the enabled right zone    *)
(* has been released, and nothing was invoked                              *)
C14_Witness ==
    /\ last.op = "touchEnd"
    /\ last.arg = <<"right", "cancelled">>
    /\ last.calls = <<>>
    /\ ~Disabled("right")
    /\ timers["right"] = {}

(* C15.  A click on an enabled zone invokes the zone's bound action        *)
(* exactly once when the de-duplication guard is not set, and invokes      *)
(* nothing when the guard is set; in neither case does the click change    *)
(* the guard or the touch session.                                         *)
C15_ClickHonoursGuard ==
    [][ \A z \in Zones :
          (/\ last'.op \in {"click", "synthClick"}
           /\ last'.arg[1] = z
           /\ ~Disabled(z)) =>
             /\ last'.calls = (IF touchHandledRef[z] THEN <<>>
                               ELSE <<OnClickName(z)>>)
             /\ touchHandledRef[z] => (currentIndex' = currentIndex /\ last'.emits = <<>>)
             /\ touchHandledRef' = touchHandledRef
             /\ touchStartRef' = touchStartRef ]_vars

(* A mouse click on the enabled right zone found the guard set and invoked *)
(* nothing                                                                 *)
C15_Witness ==
    /\ last.op = "click"
    /\ last.arg = <<"right">>
    /\ last.calls = <<>>
    /\ touchHandledRef["right"]
    /\ ~Disabled("right")

(* C16 as stated.  Every navigation transition is applied against the      *)
(* current state of the deck: each committed goToNext changes index by     *)
(* exactly +1 and each committed goToPrevious by exactly -1 relative to    *)
(* the index immediately before the change, also when the call is the      *)
(* deferred one of a drag-end and other navigation happened between the    *)
(* pointer-up and the deferred call.                                       *)
C16_AtomicNavigation ==
    /\ (last.calls = <<"goToNext">> /\ last.emits # <<>>) =>
          currentIndex = last.idx + 1
    /\ (last.calls = <<"goToPrevious">> /\ last.emits # <<>>) =>
          currentIndex = last.idx - 1

(* C17.  For every gesture that requested a lock apply, every apply        *)
(* requested by that gesture's moves runs before the revert requested by   *)
(* that gesture's drag-end: among the callbacks that wait, in the order in *)
(* which they run, no apply of a gesture comes after that gesture's        *)
(* revert.                                                                 *)
C17_ApplyBeforeRevert ==
    LET q == frame \o raf IN
    \A i \in DOMAIN q : \A j \in DOMAIN q :
        (i < j /\ q[i].kind = "restore" /\ q[j].kind = "apply") =>
            q[i].g # q[j].g

(* The frame has run an apply of a gesture and its revert is next *)
C17_Witness ==
    /\ last.op = "apply"
    /\ frame # <<>>
    /\ Head(frame).kind = "restore"
    /\ Head(frame).g = last.arg[1]
    /\ Locked(style)

(* C18 as stated.  A drag that is interrupted without a normal pointer-up  *)
(* still has its lock reverted: every lock apply is eventually followed by *)
(* a revert on every exit path, so no lock outlives its contact.           *)
C18_LockReverted == (Locked(style) /\ dragEl = NoEl) ~> ~Locked(style)

(* The lock-apply callbacks in a queue *)
Applies(q) == {i \in DOMAIN q : q[i].kind = "apply"}

(* C19 as stated.  Lock-apply scheduling is coalesced: however many        *)
(* qualifying pointer-moves arrive between two frames, at most one         *)
(* lock-apply is pending and at most one is executed in the next frame.    *)
C19_ApplyCoalesced ==
    /\ Cardinality(Applies(raf)) <= 1
    /\ Cardinality(Applies(frame)) <= 1

(* C20.  A pointer-move requests a lock apply if and only if a drag        *)
(* session exists and, with dx = |x - originX| and dy = |y - originY|,     *)
(* dx > 10 and dx > dy * 1.2; nothing but such a move requests one, so a   *)
(* drag none of whose moves satisfies this never applies the lock.         *)
C20_LockCondition ==
    [][ /\ last'.op = "drag" =>
             \A x \in DragXs, y \in DragYs :
               Drag(<<x, y>>) =>
                 LET wanted ==
                       IF dragStart = NoDrag THEN FALSE
                       ELSE /\ Abs(x - dragStart[1]) > 10
                            /\ 10 * Abs(x - dragStart[1]) > 12 * Abs(y - dragStart[2])
                 IN  IF wanted
                     THEN /\ Len(raf') = Len(raf) + 1
                          /\ raf'[Len(raf')].kind = "apply"
                          /\ SubSeq(raf', 1, Len(raf)) = raf
                     ELSE raf' = raf
        /\ (Cardinality(Applies(raf')) + Cardinality(Applies(frame'))
              > Cardinality(Applies(raf)) + Cardinality(Applies(frame))) =>
             last'.op = "drag" ]_vars

(* A move 13 to the right of an origin that is not (0,0) requested the     *)
(* lock                                                                    *)
C20_Witness ==
    /\ last.op = "drag"
    /\ dragStart = <<13, 10>>
    /\ raf # <<>>
    /\ raf[Len(raf)].kind = "apply"
    /\ raf[Len(raf)].g = 0

(* C21.  Applying the lock is idempotent: the card-surface state after     *)
(* applying the lock two or more times equals the state after applying it  *)
(* once, and a single revert after any number of applies yields the        *)
(* unlocked state.                                                         *)
C21_LockIdempotent ==
    [][ /\ (RunApply /\ Head(frame).el = Live) =>
             /\ Locked(style')
             /\ ApplyLock(style') = style'
             /\ Locked(style) => style' = style
        /\ (RunRestore /\ Head(frame).el = Live) =>
             /\ ~Locked(style')
             /\ style' = RestoreLock(ApplyLock(style))
             /\ style' = RestoreLock(ApplyLock(ApplyLock(style))) ]_vars

(* The lock was applied to a card that already carried it *)
C21_Witness ==
    /\ last.op = "apply"
    /\ last.arg[2]
    /\ Locked(style)

(* C22 as stated.  A drag session exists exactly while a pointer contact   *)
(* is active: it is created by pointer-down with the contact's origin      *)
(* point, and after every drag-end it is absent, whether or not the        *)
(* drag-end resulted in navigation.                                        *)
C22_SessionWhileContact ==
    /\ (dragStart # NoDrag) <=> (dragEl # NoEl)
    /\ last.op = "dragStart" => dragStart \in DragStarts
    /\ last.op = "dragEnd" => dragStart = NoDrag

(* C23 as stated.  Each hot zone is Idle (holds no session) whenever no    *)
(* touch contact is active on it: every touch-end of an Armed contact      *)
(* returns the zone to Idle with its session cleared, on every path,       *)
(* including when the zone became disabled between touch-start and         *)
(* touch-end.                                                              *)
C23_IdleWithoutContact ==
    \A z \in Zones : contact[z] = NoTouch => touchStartRef[z] = NoTouch

(* C24.  The de-duplication guard is short-lived: whenever the guard of a  *)
(* zone is set, a reset is pending for it (scheduled by the touch-end that *)
(* set it), and the guard is eventually cleared without any further input, *)
(* so a later genuine mouse click on the enabled zone invokes the action.  *)
C24_GuardShortLived ==
    /\ [](\A z \in Zones : touchHandledRef[z] => timers[z] # {})
    /\ \A z \in Zones : touchHandledRef[z] ~> ~touchHandledRef[z]

(* The reset timer of the right zone has cleared a guard that was set *)
C24_Witness ==
    /\ last.op = "timer"
    /\ last.arg = <<"right", TRUE>>
    /\ ~touchHandledRef["right"]

(* C25 as stated.  Once a touch-end sets a zone's guard, the guard stays   *)
(* set until the reset timer scheduled by that same touch-end fires: it is *)
(* not cleared earlier by the still-pending timer of a previous contact    *)
(* nor by the touch-start of a following contact.  (No touch-end of the    *)
(* zone follows the one that set the guard while the guard is set, so its  *)
(* timer is the last of the zone's timers to fire.)                        *)
C25_GuardKeptUntilOwnTimer ==
    [][ \A z \in Zones :
          (touchHandledRef[z] /\ ~touchHandledRef'[z]) =>
             /\ last'.op = "timer"
             /\ last'.arg[1] = z
             /\ timers'[z] = {} ]_vars

(* C26 as stated.  A contact whose touch-start was ignored because the     *)
(* zone was disabled at that moment never invokes the zone's action at its *)
(* touch-end, even if the zone has become enabled in between and an        *)
(* earlier contact on that zone ended while the zone was disabled.         *)
C26_IgnoredContactNeverActs ==
    [][ \A z \in Zones :
          (/\ last'.op = "touchEnd"
           /\ last'.arg[1] = z
           /\ contact[z] # NoTouch
           /\ ~contact[z][3]) => last'.calls = <<>> ]_vars

(* C27.  For a drag-end that qualifies for navigation, the lock revert     *)
(* requested by that drag-end is executed before the index transition it   *)
(* triggers: when its navigation callback runs, none of the gesture's      *)
(* reverts is still waiting, and the revert wrote to the card that was     *)
(* dragged or, if that card is no longer shown, to no shown card.          *)
C27_RevertBeforeTransition ==
    [][ /\ RunNav =>
             /\ \A i \in DOMAIN frame :
                  ~(frame[i].kind = "restore" /\ frame[i].g = Head(frame).g)
             /\ \A i \in DOMAIN raf :
                  ~(raf[i].kind = "restore" /\ raf[i].g = Head(frame).g)
             /\ last.op = "restore"
             /\ last.arg[1] = Head(frame).g
        /\ RunRestore =>
             style' = (IF Head(frame).el = Live THEN RestoreLock(style) ELSE style) ]_vars

(* The deferred navigation of a drag-end has changed the card right after  *)
(* the revert of the same drag-end unlocked the dragged one                *)
C27_Witness ==
    /\ last.op = "nav"
    /\ last.emits # <<>>
    /\ currentIndex # last.idx
    /\ style = FreshStyle(hasBody)

(* C28.  In every reachable state direction is in {-1, 0, +1}; it is 0     *)
(* only while no onNavigate has been emitted, and otherwise equals the     *)
(* argument of the most recent onNavigate emission (direction never        *)
(* returns to 0 after the first transition).                               *)
C28_DirectionIsLastEmission ==
    /\ direction \in {-1, 0, 1}
    /\ direction = 0 <=> lastNav = 0
    /\ lastNav # 0 => direction = lastNav
    /\ last.dir # 0 => direction # 0

(* goToIndex(index) after a forward transition turned direction to -1,     *)
(* the value it emitted                                                    *)
C28_Witness ==
    /\ last.op = "goToIndex"
    /\ last.emits = <<-1>>
    /\ last.dir = 1
    /\ direction = -1
    /\ lastNav = -1

(* C29.  The two hot zones keep independent state: a touch-start,          *)
(* touch-move, touch-end, click or guard-reset timer of one zone leaves    *)
(* the other zone's session and de-duplication guard unchanged, and a      *)
(* handled touch on one zone does not suppress a click on the other.       *)
C29_ZonesIndependent ==
    [][ \A z \in Zones :
          (/\ last'.op \in {"touchStart", "touchMove", "touchEnd", "click",
                            "synthClick", "timer"}
           /\ last'.arg[1] = z) =>
             /\ touchStartRef'[Other(z)] = touchStartRef[Other(z)]
             /\ touchHandledRef'[Other(z)] = touchHandledRef[Other(z)]
             /\ (/\ last'.op = "click"
                 /\ ~Disabled(z)
                 /\ ~touchHandledRef[z]
                 /\ touchHandledRef[Other(z)]) =>
                   last'.calls = <<OnClickName(z)>> ]_vars

(* A click on the left zone went through while the guard of the right zone *)
(* was set by a handled touch                                              *)
C29_Witness ==
    /\ last.op = "click"
    /\ last.arg = <<"left">>
    /\ last.calls = <<"goToPrevious">>
    /\ touchHandledRef["right"]
    /\ ~touchHandledRef["left"]

====
